---- MODULE Spec2Model ----
(***************************************************************************)
(* Binary search tree BST<T> of src/include/bst.hpp.                       *)
(*                                                                         *)
(* The heap is a function from node addresses to TreeNode records; a       *)
(* TreeNode* is an address or NULL.  A `TreeNode*&` parameter is a slot:   *)
(* the tree's root field, or the left/right field of a node.  T is a       *)
(* record with a key, which operator< compares, and a tag, which it does   *)
(* not look at: two values with the same key are comparison-equal and      *)
(* still distinguishable.                                                  *)
(***************************************************************************)
EXTENDS Integers, Sequences, FiniteSets, TLC

\* Keys 1..MaxKey are inserted and removed under Spec.
MaxKey == 4
\* The heap has the addresses 1..MaxNodes.
MaxNodes == 4
\* Keys 1..MaxEqKey, each with every tag, are used under SpecEq.
MaxEqKey == 2
\* nullptr
NULL == 0

Addrs == 1..MaxNodes
Tags == {"a", "b"}
Val(k, g) == [key |-> k, tag |-> g]
NoVal == Val(0, "a")
Vals == {Val(k, "a") : k \in 1..MaxKey}
ValsEq == {Val(k, g) : k \in 1..MaxEqKey, g \in Tags}

\* T's operator<, the only comparison the tree uses.
Less(a, b) == a.key < b.key

\* Memory that holds no node: released, or never allocated.
FreeNode == [live |-> FALSE, data |-> NoVal, left |-> NULL, right |-> NULL]

\* TreeNode::TreeNode(const T& value)
TreeNode(value) == [live |-> TRUE, data |-> value, left |-> NULL, right |-> NULL]

\* BST::BST()
EmptyTree(addrs) == [root |-> NULL, heap |-> [a \in addrs |-> FreeNode]]

\* The three places a TreeNode*& can refer to.
RootSlot == [kind |-> "root", of |-> NULL]
LeftSlot(n) == [kind |-> "left", of |-> n]
RightSlot(n) == [kind |-> "right", of |-> n]

\* Reading a TreeNode*&.
Deref(t, s) ==
  IF s.kind = "root" THEN t.root
  ELSE IF s.kind = "left" THEN t.heap[s.of].left
  ELSE t.heap[s.of].right

\* Assigning through a TreeNode*&.
Assign(t, s, p) ==
  IF s.kind = "root" THEN [t EXCEPT !.root = p]
  ELSE IF s.kind = "left" THEN [t EXCEPT !.heap[s.of].left = p]
  ELSE [t EXCEPT !.heap[s.of].right = p]

\* delete n: TreeNode::~TreeNode() deletes left, then right, then the node's
\* memory is released.  delete nullptr does nothing.
RECURSIVE Destroy(_, _)
Destroy(h, n) ==
  IF n = NULL THEN h
  ELSE LET h1 == Destroy(h, h[n].left)
           h2 == Destroy(h1, h[n].right)
       IN  [h2 EXCEPT ![n] = FreeNode]

\* TreeNode::min() with the successor search going right (TreeNode::max()).
RECURSIVE MinGoesRight(_, _)
MinGoesRight(h, n) == IF h[n].right = NULL THEN n ELSE MinGoesRight(h, h[n].right)

\* TreeNode::min() without its recursion.
MinNoDescent(h, n) == n

\* TreeNode::min()
RECURSIVE Min(_, _)
Min(h, n) == IF h[n].left = NULL THEN n ELSE Min(h, h[n].left)

\* TreeNode::max()
RECURSIVE Max(_, _)
Max(h, n) == IF h[n].right = NULL THEN n ELSE Max(h, h[n].right)

\* insert's equal case with the stored value overwritten.
InsertEqualOverwrites(t, node, value) ==
  [t |-> [t EXCEPT !.heap[node].data = value], ret |-> FALSE]

\* insert's equal case: "O valor ja existe", return false.
InsertEqual(t, node, value) == [t |-> t, ret |-> FALSE]

\* insert with the two descents swapped.
RECURSIVE InsertSwapped(_, _, _, _)
InsertSwapped(t, s, value, fresh) ==
  LET node == Deref(t, s) IN
  IF node = NULL
    THEN [t |-> Assign([t EXCEPT !.heap[fresh] = TreeNode(value)], s, fresh),
          ret |-> TRUE]
  ELSE IF Less(value, t.heap[node].data)
    THEN InsertSwapped(t, RightSlot(node), value, fresh)
  ELSE IF Less(t.heap[node].data, value)
    THEN InsertSwapped(t, LeftSlot(node), value, fresh)
  ELSE InsertEqual(t, node, value)

\* insert with the second comparison dropped: an equal value goes right.
RECURSIVE InsertNoEqualTest(_, _, _, _)
InsertNoEqualTest(t, s, value, fresh) ==
  LET node == Deref(t, s) IN
  IF node = NULL
    THEN [t |-> Assign([t EXCEPT !.heap[fresh] = TreeNode(value)], s, fresh),
          ret |-> TRUE]
  ELSE IF Less(value, t.heap[node].data)
    THEN InsertNoEqualTest(t, LeftSlot(node), value, fresh)
  ELSE InsertNoEqualTest(t, RightSlot(node), value, fresh)

\* bool BST::insert(TreeNode*& node, const T& value); fresh is the address
\* `new TreeNode(value)` returns, read only when the descent ends at nullptr.
RECURSIVE insert(_, _, _, _)
insert(t, s, value, fresh) ==
  LET node == Deref(t, s) IN
  IF node = NULL
    THEN [t |-> Assign([t EXCEPT !.heap[fresh] = TreeNode(value)], s, fresh),
          ret |-> TRUE]
  ELSE IF Less(value, t.heap[node].data)
    THEN insert(t, LeftSlot(node), value, fresh)
  ELSE IF Less(t.heap[node].data, value)
    THEN insert(t, RightSlot(node), value, fresh)
  ELSE InsertEqual(t, node, value)

\* contain with the second comparison dropped.
RECURSIVE ContainNoRight(_, _, _)
ContainNoRight(h, node, value) ==
  IF node = NULL THEN FALSE
  ELSE IF Less(value, h[node].data) THEN ContainNoRight(h, h[node].left, value)
  ELSE TRUE

\* bool BST::contain(const TreeNode* const node, const T& value) const
RECURSIVE contain(_, _, _)
contain(h, node, value) ==
  IF node = NULL THEN FALSE
  ELSE IF Less(value, h[node].data) THEN contain(h, h[node].left, value)
  ELSE IF Less(h[node].data, value) THEN contain(h, h[node].right, value)
  ELSE TRUE

\* TreeNode* BST::find_node(TreeNode* node, const T& value) const
RECURSIVE find_node(_, _, _)
find_node(h, node, value) ==
  IF node = NULL THEN NULL
  ELSE IF Less(value, h[node].data) THEN find_node(h, h[node].left, value)
  ELSE IF Less(h[node].data, value) THEN find_node(h, h[node].right, value)
  ELSE node

\* What one call of the private remove reports: the tree, the returned bool,
\* the number of calls of remove made, the number of them that took the
\* two-children branch, and for every nested call (the one made by that
\* branch) what it returned and which branch its match took.
RemoveResult(t, ret, how) ==
  [t |-> t, ret |-> ret, how |-> how, calls |-> 1, case3 |-> 0,
   nestedRet |-> {}, nestedHow |-> {}]

\* A descent step: one more call, the callee's result returned as is.
Descend(r) == [r EXCEPT !.calls = r.calls + 1]

\* remove reaching nullptr, returning true.
RemoveAbsentSucceeds(t) == RemoveResult(t, TRUE, 0)

\* remove reaching nullptr: "Valor nao encontrado".
RemoveAbsent(t) == RemoveResult(t, FALSE, 0)

\* Caso 1 without `temp->right = nullptr`.
RemoveNoLeftKeepsLink(t, s, temp) ==
  LET t1 == Assign(t, s, t.heap[temp].right)
  IN  RemoveResult([t1 EXCEPT !.heap = Destroy(t1.heap, temp)], TRUE, 1)

\* Caso 1: node = node->right; temp->right = nullptr; delete temp.
RemoveNoLeft(t, s, temp) ==
  LET t1 == Assign(t, s, t.heap[temp].right)
      t2 == [t1 EXCEPT !.heap[temp].right = NULL]
  IN  RemoveResult([t2 EXCEPT !.heap = Destroy(t2.heap, temp)], TRUE, 1)

\* Caso 2 splicing in the (absent) right child.
RemoveNoRightTakesRight(t, s, temp) ==
  LET t1 == Assign(t, s, t.heap[temp].right)
      t2 == [t1 EXCEPT !.heap[temp].left = NULL]
  IN  RemoveResult([t2 EXCEPT !.heap = Destroy(t2.heap, temp)], TRUE, 2)

\* Caso 2: node = node->left; temp->left = nullptr; delete temp.
RemoveNoRight(t, s, temp) ==
  LET t1 == Assign(t, s, t.heap[temp].left)
      t2 == [t1 EXCEPT !.heap[temp].left = NULL]
  IN  RemoveResult([t2 EXCEPT !.heap = Destroy(t2.heap, temp)], TRUE, 2)

\* bool BST::remove(TreeNode*& node, const T& value).  In Caso 3 the nested
\* call takes successor->data by reference; the successor's value does not
\* change before the successor is deleted and is not read after, so the value
\* read at the call is the value of every read.
RECURSIVE remove(_, _, _)
remove(t, s, value) ==
  LET node == Deref(t, s) IN
  IF node = NULL THEN RemoveAbsent(t)
  ELSE IF Less(value, t.heap[node].data)
    THEN Descend(remove(t, LeftSlot(node), value))
  ELSE IF Less(t.heap[node].data, value)
    THEN Descend(remove(t, RightSlot(node), value))
  ELSE IF t.heap[node].left = NULL THEN RemoveNoLeft(t, s, node)
  ELSE IF t.heap[node].right = NULL THEN RemoveNoRight(t, s, node)
  ELSE LET successor == Min(t.heap, t.heap[node].right)
           t1 == [t EXCEPT !.heap[node].data = t.heap[successor].data]
           r == remove(t1, RightSlot(node), t.heap[successor].data)
       IN  [t |-> r.t, ret |-> TRUE, how |-> 3, calls |-> r.calls + 1,
            case3 |-> r.case3 + 1,
            nestedRet |-> r.nestedRet \cup {r.ret},
            nestedHow |-> r.nestedHow \cup {r.how}]

\* in_order pushing the node before its left subtree.
RECURSIVE InOrderNodeFirst(_, _)
InOrderNodeFirst(h, node) ==
  IF node = NULL THEN <<>>
  ELSE <<h[node].data>> \o InOrderNodeFirst(h, h[node].left)
         \o InOrderNodeFirst(h, h[node].right)

\* void BST::in_order(const TreeNode* const node, std::vector<T>& result)
RECURSIVE in_order(_, _)
in_order(h, node) ==
  IF node = NULL THEN <<>>
  ELSE in_order(h, h[node].left) \o <<h[node].data>> \o in_order(h, h[node].right)

\* pre_order pushing the node after its left subtree.
RECURSIVE PreOrderLeftFirst(_, _)
PreOrderLeftFirst(h, node) ==
  IF node = NULL THEN <<>>
  ELSE PreOrderLeftFirst(h, h[node].left) \o <<h[node].data>>
         \o PreOrderLeftFirst(h, h[node].right)

\* void BST::pre_order(const TreeNode* const node, std::vector<T>& result)
RECURSIVE pre_order(_, _)
pre_order(h, node) ==
  IF node = NULL THEN <<>>
  ELSE <<h[node].data>> \o pre_order(h, h[node].left) \o pre_order(h, h[node].right)

\* void BST::post_order(const TreeNode* const node, std::vector<T>& result)
RECURSIVE post_order(_, _)
post_order(h, node) ==
  IF node = NULL THEN <<>>
  ELSE post_order(h, h[node].left) \o post_order(h, h[node].right) \o <<h[node].data>>

\* The public wrappers, on a tree value.
TreeInsert(t, value, fresh) == insert(t, RootSlot, value, fresh)
TreeRemove(t, value) == remove(t, RootSlot, value)
TreeContain(t, value) == contain(t.heap, t.root, value)
TreeFindNode(t, value) == find_node(t.heap, t.root, value)
TreeInOrder(t) == in_order(t.heap, t.root)
TreePreOrder(t) == pre_order(t.heap, t.root)
TreePostOrder(t) == post_order(t.heap, t.root)

(***************************************************************************)
(* The plain mathematical set the tree is compared with.                   *)
(***************************************************************************)
Equiv(a, b) == ~Less(a, b) /\ ~Less(b, a)
Member(set, v) == \E w \in set : Equiv(w, v)
SetInsert(set, v) == IF Member(set, v) THEN set ELSE set \cup {v}
SetRemove(set, v) == {w \in set : ~Equiv(w, v)}

(***************************************************************************)
(* State: the tree (root, heap), and the call that has just returned to   *)
(* the caller, if any: its name, its argument, what it returned, the tree  *)
(* and the set before it, and for a remove the report of its calls.  The   *)
(* caller makes the next call after it has dropped the result (op is       *)
(* "idle").                                                                *)
(***************************************************************************)
VARIABLES root, heap, S, op, arg, ret, pre, trace

vars == <<root, heap, S, op, arg, ret, pre, trace>>

Cur == [root |-> root, heap |-> heap]
Pre == [root |-> pre.root, heap |-> pre.heap]
NoTrace == [how |-> 0, calls |-> 0, case3 |-> 0, nestedRet |-> {}, nestedHow |-> {}]
Snapshot == [root |-> root, heap |-> heap, S |-> S]

Init ==
  /\ root = EmptyTree(Addrs).root
  /\ heap = EmptyTree(Addrs).heap
  /\ S = {}
  /\ op = "idle"
  /\ arg = NoVal
  /\ ret = FALSE
  /\ pre = [root |-> NULL, heap |-> EmptyTree(Addrs).heap, S |-> {}]
  /\ trace = NoTrace

\* bool BST::insert(const T& value).  `new` returns any address that holds no
\* node; a call that needs a node when none is free is not modelled.
Insert(value) ==
  \E fresh \in Addrs :
    LET r == TreeInsert(Cur, value, fresh) IN
    /\ op = "idle"
    /\ r.ret => ~heap[fresh].live
    /\ root' = r.t.root
    /\ heap' = r.t.heap
    /\ S' = SetInsert(S, value)
    /\ op' = "insert"
    /\ arg' = value
    /\ ret' = r.ret
    /\ pre' = Snapshot
    /\ trace' = NoTrace

\* bool BST::remove(const T& value)
Remove(value) ==
  LET r == TreeRemove(Cur, value) IN
  /\ op = "idle"
  /\ root' = r.t.root
  /\ heap' = r.t.heap
  /\ S' = SetRemove(S, value)
  /\ op' = "remove"
  /\ arg' = value
  /\ ret' = r.ret
  /\ pre' = Snapshot
  /\ trace' = [how |-> r.how, calls |-> r.calls, case3 |-> r.case3,
               nestedRet |-> r.nestedRet, nestedHow |-> r.nestedHow]

\* bool BST::contain(const T& value) const
Contain(value) ==
  /\ op = "idle"
  /\ op' = "contain"
  /\ arg' = value
  /\ ret' = TreeContain(Cur, value)
  /\ pre' = Snapshot
  /\ trace' = NoTrace
  /\ UNCHANGED <<root, heap, S>>

\* TreeNode* BST::find_node(const T& value) const
FindNode(value) ==
  /\ op = "idle"
  /\ op' = "find_node"
  /\ arg' = value
  /\ ret' = TreeFindNode(Cur, value)
  /\ pre' = Snapshot
  /\ trace' = NoTrace
  /\ UNCHANGED <<root, heap, S>>

\* std::vector<T> BST::in_order() const
InOrder ==
  /\ op = "idle"
  /\ op' = "in_order"
  /\ arg' = NoVal
  /\ ret' = TreeInOrder(Cur)
  /\ pre' = Snapshot
  /\ trace' = NoTrace
  /\ UNCHANGED <<root, heap, S>>

\* std::vector<T> BST::pre_order() const
PreOrder ==
  /\ op = "idle"
  /\ op' = "pre_order"
  /\ arg' = NoVal
  /\ ret' = TreePreOrder(Cur)
  /\ pre' = Snapshot
  /\ trace' = NoTrace
  /\ UNCHANGED <<root, heap, S>>

\* std::vector<T> BST::post_order() const
PostOrder ==
  /\ op = "idle"
  /\ op' = "post_order"
  /\ arg' = NoVal
  /\ ret' = TreePostOrder(Cur)
  /\ pre' = Snapshot
  /\ trace' = NoTrace
  /\ UNCHANGED <<root, heap, S>>

\* The caller drops the returned value; the tree stays as the call left it.
Discard ==
  /\ op # "idle"
  /\ op' = "idle"
  /\ arg' = NoVal
  /\ ret' = FALSE
  /\ pre' = [root |-> NULL, heap |-> EmptyTree(Addrs).heap, S |-> {}]
  /\ trace' = NoTrace
  /\ UNCHANGED <<root, heap, S>>

Next ==
  \/ \E value \in Vals : Insert(value)
  \/ \E value \in Vals : Remove(value)
  \/ \E value \in Vals : Contain(value)
  \/ \E value \in Vals : FindNode(value)
  \/ InOrder
  \/ PreOrder
  \/ PostOrder
  \/ Discard

Spec == Init /\ [][Next]_vars

\* The same calls with comparison-equal, distinguishable arguments.
NextEq ==
  \/ \E value \in ValsEq : Insert(value)
  \/ \E value \in ValsEq : Remove(value)
  \/ \E value \in ValsEq : Contain(value)
  \/ \E value \in ValsEq : FindNode(value)
  \/ InOrder
  \/ PreOrder
  \/ PostOrder
  \/ Discard

SpecEq == Init /\ [][NextEq]_vars

(***************************************************************************)
(* Vocabulary of the properties.                                           *)
(***************************************************************************)
AllVals == Vals \cup ValsEq
Live(h) == {a \in DOMAIN h : h[a].live}
SeqSet(q) == {q[i] : i \in DOMAIN q}
NoRepeat(q) == \A i, j \in DOMAIN q : q[i] = q[j] => i = j
StrictlyAscending(q) == \A i \in DOMAIN q : i < Len(q) => Less(q[i], q[i + 1])
KeysOf(q) == [i \in DOMAIN q |-> q[i].key]
Last(q) == q[Len(q)]

\* q without the values comparison-equal to v.
Without(q, v) == LET keep(x) == ~Equiv(x, v) IN SelectSeq(q, keep)

\* The ascending listing of a set with no two comparison-equal members.
RECURSIVE Ascending(_)
Ascending(set) ==
  IF set = {} THEN <<>>
  ELSE LET m == CHOOSE x \in set : \A y \in set : ~Less(y, x)
       IN  <<m>> \o Ascending(set \ {m})

\* The addresses met walking down from n, one entry per path.
RECURSIVE NodeList(_, _)
NodeList(h, n) ==
  IF n = NULL THEN <<>>
  ELSE <<n>> \o NodeList(h, h[n].left) \o NodeList(h, h[n].right)

Nodes(t) == SeqSet(NodeList(t.heap, t.root))
Slots(t) == {RootSlot} \cup {LeftSlot(n) : n \in Live(t.heap)}
                       \cup {RightSlot(n) : n \in Live(t.heap)}

BSTAt(h, n) ==
  /\ \A x \in SeqSet(in_order(h, h[n].left)) : Less(x, h[n].data)
  /\ \A y \in SeqSet(in_order(h, h[n].right)) : Less(h[n].data, y)
BSTInvariant(t) == \A n \in Nodes(t) : BSTAt(t.heap, n)

\* The tree built by inserting the keys of ks, in order, into an empty tree;
\* the i-th node allocated takes address i.
RECURSIVE InsertAll(_, _, _)
InsertAll(t, ks, i) ==
  IF i > Len(ks) THEN t
  ELSE InsertAll(TreeInsert(t, Val(ks[i], "a"), i).t, ks, i + 1)
Build(ks) == InsertAll(EmptyTree(DOMAIN ks), ks, 1)

Called(name) == op = name
\* The tree as constructed, where the scenarios that start from an empty tree
\* are evaluated.
Constructed == op = "idle" /\ root = NULL
Removed == Called("remove") /\ ret = TRUE
Inserted == Called("insert") /\ ret = TRUE
Freed == Live(pre.heap) \ Live(heap)
Allocated == Live(heap) \ Live(pre.heap)
Matched == TreeFindNode(Pre, arg)

(***************************************************************************)
(* C1: in every tree reachable by insert and remove calls, the BST         *)
(* invariant holds at every node (left subtree < node < right subtree),    *)
(* and in_order() is strictly ascending, hence without duplicates.         *)
(***************************************************************************)
C1_BstInvariant ==
  /\ BSTInvariant(Cur)
  /\ StrictlyAscending(TreeInOrder(Cur))

\* A two-children removal has left a tree of three or more values.
C1_Witness ==
  /\ Removed
  /\ trace.how = 3
  /\ Len(TreeInOrder(Cur)) >= 3

(***************************************************************************)
(* C2: beside the plain set S, in_order() has |S| elements and is the      *)
(* ascending listing of S; insert(v) returns true exactly when v was not   *)
(* in S and remove(v) returns true exactly when v was in S.                *)
(***************************************************************************)
C2_RefinesSet ==
  /\ Len(TreeInOrder(Cur)) = Cardinality(S)
  /\ TreeInOrder(Cur) = Ascending(S)
  /\ Called("insert") => (ret = ~Member(pre.S, arg))
  /\ Called("remove") => (ret = Member(pre.S, arg))

\* A removal from a set of three or more has succeeded.
C2_Witness ==
  /\ Removed
  /\ Cardinality(pre.S) >= 3
  /\ Cardinality(S) = Cardinality(pre.S) - 1

(***************************************************************************)
(* C3: contain(v) is true exactly when v is in S (inserted and not since   *)
(* removed), in particular right after a successful insert(v);             *)
(* find_node(v) is null exactly when contain(v) is false, and otherwise a  *)
(* node of the tree whose value is comparison-equal to v.                  *)
(***************************************************************************)
C3_Lookup ==
  /\ LET nodes == Nodes(Cur) IN
     \A v \in AllVals :
       LET found == TreeFindNode(Cur, v)
           has == TreeContain(Cur, v)
       IN  /\ has = Member(S, v)
           /\ (found = NULL) = ~has
           /\ found # NULL => /\ found \in nodes
                              /\ heap[found].live
                              /\ Equiv(heap[found].data, v)
  /\ Inserted => TreeContain(Cur, arg)
  /\ Called("contain") => (ret = Member(S, arg))
  /\ Called("find_node") => (ret = NULL) = ~Member(S, arg)

\* find_node has returned a node below the root.
C3_Witness ==
  /\ Called("find_node")
  /\ ret # NULL
  /\ ret # root
  /\ heap[ret].data = arg

(***************************************************************************)
(* C4: insert(v) with a comparison-equal value stored returns false and    *)
(* leaves root and every node (value and links) as they were, so the       *)
(* three traversals are unchanged.                                         *)
(***************************************************************************)
C4_DuplicateRejected ==
  (Called("insert") /\ Member(pre.S, arg)) =>
    /\ ret = FALSE
    /\ root = pre.root
    /\ heap = pre.heap
    /\ TreeInOrder(Cur) = TreeInOrder(Pre)
    /\ TreePreOrder(Cur) = TreePreOrder(Pre)
    /\ TreePostOrder(Cur) = TreePostOrder(Pre)

\* The rejected value is comparison-equal to, and not the same as, the stored
\* one, which sits below the root.
C4_Witness ==
  /\ Called("insert")
  /\ ret = FALSE
  /\ Member(pre.S, arg)
  /\ arg \notin pre.S
  /\ Matched # NULL
  /\ Matched # pre.root

(***************************************************************************)
(* C5: remove(v) with no comparison-equal value stored returns false,      *)
(* leaves root and every node as they were and releases nothing; on the    *)
(* empty tree remove(x) and contain(x) are false for every x and the tree  *)
(* stays empty.                                                            *)
(***************************************************************************)
C5_AbsentRemove ==
  /\ (Called("remove") /\ ~Member(pre.S, arg)) =>
       /\ ret = FALSE
       /\ root = pre.root
       /\ heap = pre.heap
       /\ Freed = {}
       /\ TreeInOrder(Cur) = TreeInOrder(Pre)
       /\ TreePreOrder(Cur) = TreePreOrder(Pre)
       /\ TreePostOrder(Cur) = TreePostOrder(Pre)
  /\ root = NULL =>
       \A x \in AllVals :
         /\ ~TreeContain(Cur, x)
         /\ ~TreeRemove(Cur, x).ret
         /\ TreeRemove(Cur, x).t = Cur

\* A failed removal that went down at least two levels of a non-empty tree.
C5_Witness ==
  /\ Called("remove")
  /\ ret = FALSE
  /\ pre.root # NULL
  /\ trace.calls >= 3

(***************************************************************************)
(* C6 as stated: remove(v) of a present v returns true and each of the     *)
(* three traversals is the one before with v taken out (v gone, the rest   *)
(* there, in the same relative order).                                     *)
(***************************************************************************)
C6_AsStated ==
  (Called("remove") /\ Member(pre.S, arg)) =>
    /\ ret = TRUE
    /\ TreeInOrder(Cur) = Without(TreeInOrder(Pre), arg)
    /\ TreePreOrder(Cur) = Without(TreePreOrder(Pre), arg)
    /\ TreePostOrder(Cur) = Without(TreePostOrder(Pre), arg)

\* in_order() after inserting 5,3,8,1,4,7,9 and removing 5.
TwoChildrenScenario ==
  KeysOf(TreeInOrder(TreeRemove(Build(<<5, 3, 8, 1, 4, 7, 9>>), Val(5, "a")).t))

(***************************************************************************)
(* C6 amended: remove(v) of a present v returns true; v is in none of the  *)
(* three traversals and every other value is in each; in_order() keeps     *)
(* the relative order of the other values; pre_order() and post_order()    *)
(* keep it when the matched node lacks a child, and in the two-children    *)
(* case keep it for the values other than the successor's, which moves to  *)
(* the matched node's place.                                               *)
(***************************************************************************)
C6_Amended ==
  /\ (Called("remove") /\ Member(pre.S, arg)) =>
       LET moved == heap[Matched].data
           preNow == TreePreOrder(Cur)
           postNow == TreePostOrder(Cur)
           preCut == Without(TreePreOrder(Pre), arg)
           postCut == Without(TreePostOrder(Pre), arg)
       IN  /\ ret = TRUE
           /\ TreeInOrder(Cur) = Without(TreeInOrder(Pre), arg)
           /\ SeqSet(preNow) = SeqSet(preCut)
           /\ SeqSet(postNow) = SeqSet(postCut)
           /\ Len(preNow) = Len(TreePreOrder(Pre)) - 1
           /\ Len(postNow) = Len(TreePostOrder(Pre)) - 1
           /\ trace.how # 3 => preNow = preCut /\ postNow = postCut
           /\ trace.how = 3 =>
                /\ Without(preNow, moved) = Without(preCut, moved)
                /\ Without(postNow, moved) = Without(postCut, moved)
  /\ Constructed => TwoChildrenScenario = <<1, 3, 4, 7, 8, 9>>

\* A two-children removal after which pre_order() and post_order() are not
\* the ones before with v taken out.
C6_Witness ==
  /\ Removed
  /\ trace.how = 3
  /\ TreePreOrder(Cur) # Without(TreePreOrder(Pre), arg)
  /\ TreePostOrder(Cur) # Without(TreePostOrder(Pre), arg)

(***************************************************************************)
(* C7: in every non-empty reachable tree pre_order() starts with, and      *)
(* post_order() ends with, the value stored in the root node; on the       *)
(* empty tree the three traversals are empty.                              *)
(***************************************************************************)
C7_RootFirstAndLast ==
  /\ root # NULL =>
       /\ heap[root].live
       /\ Head(TreePreOrder(Cur)) = heap[root].data
       /\ Last(TreePostOrder(Cur)) = heap[root].data
  /\ root = NULL =>
       /\ TreeInOrder(Cur) = <<>>
       /\ TreePreOrder(Cur) = <<>>
       /\ TreePostOrder(Cur) = <<>>
  /\ Called("pre_order") /\ root # NULL => Head(ret) = heap[root].data
  /\ Called("post_order") /\ root # NULL => Last(ret) = heap[root].data

\* The root has just been removed by successor copy, or by a splice that
\* left a tree of two or more nodes.
C7_Witness ==
  /\ Removed
  /\ Matched = pre.root
  /\ Len(TreePreOrder(Cur)) >= 2
  /\ trace.how = 3 \/ root # pre.root

\* The traversals after inserting 5,3,8,1,4.
InsertScenario ==
  LET t == Build(<<5, 3, 8, 1, 4>>)
  IN  <<KeysOf(TreeInOrder(t)), KeysOf(TreePreOrder(t)), KeysOf(TreePostOrder(t))>>

(***************************************************************************)
(* C8: a successful insert(v) allocates exactly one node, a leaf holding   *)
(* v, and stores its address in one slot that held null (the root or a     *)
(* child link); no node is released, every node there before keeps its     *)
(* value and its non-null links, and the slot is the one that keeps the    *)
(* BST invariant.  Inserting 5,3,8,1,4 gives in_order() = [1,3,4,5,8],     *)
(* pre_order() = [5,3,1,4,8], post_order() = [1,4,3,8,5].                  *)
(***************************************************************************)
C8_InsertFrame ==
  /\ Inserted =>
       /\ Cardinality(Allocated) = 1
       /\ Freed = {}
       /\ \A a \in Allocated : heap[a] = TreeNode(arg)
       /\ \A n \in Live(pre.heap) : heap[n].data = pre.heap[n].data
       /\ \A s \in Slots(Pre) :
            \/ Deref(Cur, s) = Deref(Pre, s)
            \/ Deref(Pre, s) = NULL /\ Deref(Cur, s) \in Allocated
       /\ Cardinality({s \in Slots(Pre) : Deref(Cur, s) # Deref(Pre, s)}) = 1
       /\ BSTInvariant(Cur)
       /\ Nodes(Cur) = Nodes(Pre) \cup Allocated
  /\ Constructed =>
       InsertScenario = << <<1, 3, 4, 5, 8>>, <<5, 3, 1, 4, 8>>, <<1, 4, 3, 8, 5>> >>

\* The new leaf hangs below a child of the root.
C8_Witness ==
  /\ Inserted
  /\ pre.root # NULL
  /\ \A a \in Allocated : a \notin {heap[root].left, heap[root].right}

(***************************************************************************)
(* C9: in a two-children removal the nested removal of the successor       *)
(* value returns true, matches a node without a left child and ends by a   *)
(* splice; the two-children branch is taken at most once per public        *)
(* remove, and a remove makes at most two calls per node plus one.         *)
(***************************************************************************)
C9_NestedRemoveSplices ==
  Called("remove") =>
    /\ trace.case3 <= 1
    /\ trace.case3 = 1 <=> trace.how = 3
    /\ trace.how = 3 =>
         /\ trace.nestedRet = {TRUE}
         /\ trace.nestedHow \subseteq {1, 2}
         /\ \A a \in Freed : pre.heap[a].left = NULL
         /\ Freed # {}
    /\ trace.how # 3 => trace.nestedRet = {} /\ trace.nestedHow = {}
    /\ trace.calls >= 1
    /\ trace.calls <= 2 * Cardinality(Live(pre.heap)) + 1

\* The successor was found by going left below the right child.
C9_Witness ==
  /\ Removed
  /\ trace.how = 3
  /\ \A a \in Freed : a # pre.heap[Matched].right

(***************************************************************************)
(* C10: a successful remove releases exactly one node.  In the splice      *)
(* cases it is the matched node, and the slot that held it holds its       *)
(* surviving child; in the two-children case the matched node stays where  *)
(* it is, with its successor's value, and the successor node is released.  *)
(* Every other node keeps its value.  In every reachable tree each         *)
(* allocated node is reached from the root by exactly one path, and no     *)
(* released node is linked.                                                *)
(***************************************************************************)
C10_OneNodeReleased ==
  /\ NoRepeat(NodeList(heap, root))
  /\ Nodes(Cur) = Live(heap)
  /\ \A a \in DOMAIN heap : ~heap[a].live => heap[a] = FreeNode
  /\ Removed =>
       LET successor == Min(pre.heap, pre.heap[Matched].right) IN
       /\ Matched # NULL
       /\ Cardinality(Freed) = 1
       /\ Allocated = {}
       /\ trace.how = 1 =>
            /\ Freed = {Matched}
            /\ \A s \in Slots(Pre) :
                 Deref(Pre, s) = Matched => Deref(Cur, s) = pre.heap[Matched].right
       /\ trace.how = 2 =>
            /\ Freed = {Matched}
            /\ \A s \in Slots(Pre) :
                 Deref(Pre, s) = Matched => Deref(Cur, s) = pre.heap[Matched].left
       /\ trace.how = 3 =>
            /\ Freed = {successor}
            /\ heap[Matched].live
            /\ heap[Matched].data = pre.heap[successor].data
            /\ heap[Matched].left = pre.heap[Matched].left
            /\ \A s \in Slots(Pre) :
                 Deref(Pre, s) = Matched => Deref(Cur, s) = Matched
       /\ \A n \in Live(heap) \ {Matched} : heap[n].data = pre.heap[n].data

\* A node with a right subtree has been spliced out, or a successor deep in
\* the right subtree released.
C10_Witness ==
  /\ Removed
  /\ \/ trace.how = 1 /\ pre.heap[Matched].right # NULL /\ Matched # pre.root
     \/ trace.how = 3 /\ \A a \in Freed : a # pre.heap[Matched].right

====
